---- MODULE Spec2Model ----
(***************************************************************************)
(* A model of the notice generator (src/makenotice.py): IFSC validation    *)
(* and bank-name lookup, grouping of the input rows by IFSC code, the      *)
(* rewriting of the Word template for one group, and the loop of main.     *)
(* Text is modelled by TLA+ strings, on which TLC evaluates Len, \o and    *)
(* SubSeq, so str.replace, str.lower, str.strip and the `in` test are      *)
(* computed character by character as Python computes them.                *)
(***************************************************************************)
EXTENDS Naturals, Sequences, FiniteSets, TLC

VARIABLES
  \* get_bank_name / validate_ifsc called on one argument
  ifsc_code, valid_result, name_result,
  \* read_excel_data: the rows of the data frame and the loop over them
  df, row_idx, grouped, invalid_ifsc, gpc,
  \* update_word_template: the template on disk, the arguments, the locals
  \* (doc, the baselines, the tone _apply_tone resolved, the table found at
  \* line 467), the position in the body and the value returned
  template_file, output_file, bank_name, accounts, placeholder, tone,
  doc, tmpl, tone_used, regen_table, nodal_baseline, upc, ret,
  \* main: the loop over grouped_data, the files of the output directory, and
  \* what was attempted and returned so far
  mpc, run, grouped_data, group_idx, success_count, attempted, returns, out_dir

ifscVars == <<ifsc_code, valid_result, name_result>>
groupVars == <<df, row_idx, grouped, invalid_ifsc, gpc>>
argVars == <<template_file, output_file, bank_name, accounts, placeholder, tone>>
localVars == <<doc, tmpl, tone_used, regen_table, nodal_baseline, upc, ret>>
mainVars == <<mpc, run, grouped_data, group_idx, success_count, attempted, returns>>
vars == <<ifscVars, groupVars, argVars, localVars, mainVars, out_dir>>

-----------------------------------------------------------------------------
(* Python's str operations                                                 *)

UpperLetters == "ABCDEFGHIJKLMNOPQRSTUVWXYZ"
LowerLetters == "abcdefghijklmnopqrstuvwxyz"
Digits == "0123456789"

CharAt(s, i) == SubSeq(s, i, i)

\* the position of the one-character string c in s, 0 when it is not there
IndexOf(c, s) ==
  IF \E i \in 1..Len(s) : CharAt(s, i) = c
  THEN CHOOSE i \in 1..Len(s) : CharAt(s, i) = c
  ELSE 0

UpperSet == {CharAt(UpperLetters, i) : i \in 1..Len(UpperLetters)}
LowerSet == {CharAt(LowerLetters, i) : i \in 1..Len(LowerLetters)}
DigitSet == {CharAt(Digits, i) : i \in 1..Len(Digits)}
ToLower == [c \in UpperSet |-> CharAt(LowerLetters, IndexOf(c, UpperLetters))]
ToUpper == [c \in LowerSet |-> CharAt(UpperLetters, IndexOf(c, LowerLetters))]

IsUpperChar(c) == c \in UpperSet
IsLowerChar(c) == c \in LowerSet
IsAlphaChar(c) == IsUpperChar(c) \/ IsLowerChar(c)
IsDigitChar(c) == c \in DigitSet
IsSpaceChar(c) == c = " "

\* str.isalpha(): at least one character and all of them alphabetic
isalpha(s) == Len(s) > 0 /\ \A i \in 1..Len(s) : IsAlphaChar(CharAt(s, i))
\* str.isalnum(): at least one character and all of them alphabetic or digits
isalnum(s) ==
  Len(s) > 0 /\ \A i \in 1..Len(s) : IsAlphaChar(CharAt(s, i)) \/ IsDigitChar(CharAt(s, i))

UpperChar(c) == IF IsLowerChar(c) THEN ToUpper[c] ELSE c
LowerChar(c) == IF IsUpperChar(c) THEN ToLower[c] ELSE c

RECURSIVE upper(_)
upper(s) == IF Len(s) = 0 THEN "" ELSE UpperChar(CharAt(s, 1)) \o upper(SubSeq(s, 2, Len(s)))

RECURSIVE lower(_)
lower(s) == IF Len(s) = 0 THEN "" ELSE LowerChar(CharAt(s, 1)) \o lower(SubSeq(s, 2, Len(s)))

RECURSIVE lstrip(_)
lstrip(s) ==
  IF Len(s) > 0 /\ IsSpaceChar(CharAt(s, 1)) THEN lstrip(SubSeq(s, 2, Len(s))) ELSE s

RECURSIVE rstrip(_)
rstrip(s) ==
  IF Len(s) > 0 /\ IsSpaceChar(CharAt(s, Len(s))) THEN rstrip(SubSeq(s, 1, Len(s) - 1)) ELSE s

strip(s) == rstrip(lstrip(s))

\* `sub in s`
Contains(sub, s) ==
  \E i \in 1..(Len(s) + 1) :
    i + Len(sub) - 1 <= Len(s) /\ SubSeq(s, i, i + Len(sub) - 1) = sub

\* s.replace(old, new): the non-overlapping occurrences of old, found from the
\* left; an empty old matches before every character and at the end
RECURSIVE replace(_, _, _)
replace(s, old, new) ==
  IF Len(old) = 0
  THEN IF Len(s) = 0 THEN new
       ELSE new \o CharAt(s, 1) \o replace(SubSeq(s, 2, Len(s)), old, new)
  ELSE IF Len(s) < Len(old) THEN s
  ELSE IF SubSeq(s, 1, Len(old)) = old
       THEN new \o replace(SubSeq(s, Len(old) + 1, Len(s)), old, new)
       ELSE CharAt(s, 1) \o replace(SubSeq(s, 2, Len(s)), old, new)

RECURSIVE IntToStr(_)
IntToStr(n) ==
  IF n < 10 THEN CharAt(Digits, n + 1)
  ELSE IntToStr(n \div 10) \o CharAt(Digits, (n % 10) + 1)

\* Values a caller or a data-frame cell can hold: a str, an int, None, NaN
StrVal(s) == [kind |-> "str", s |-> s, n |-> 0]
IntVal(n) == [kind |-> "int", s |-> "", n |-> n]
NoneVal == [kind |-> "None", s |-> "", n |-> 0]
NanVal == [kind |-> "nan", s |-> "", n |-> 0]

\* str(v), also what an f-string writes for v
str(v) ==
  CASE v.kind = "str" -> v.s
    [] v.kind = "int" -> IntToStr(v.n)
    [] v.kind = "None" -> "None"
    [] v.kind = "nan" -> "nan"

-----------------------------------------------------------------------------
(* IFSC_BANK_MAP, get_bank_name, validate_ifsc                             *)

IFSC_BANK_MAP ==
  { <<"SBIN", "STATE BANK OF INDIA">>,
       <<"ALLA", "ALLAHABAD BANK">>,
       <<"ANDB", "ANDHRA BANK">>,
       <<"BARB", "BANK OF BARODA">>,
       <<"BKID", "BANK OF INDIA">>,
       <<"MAHB", "BANK OF MAHARASHTRA">>,
       <<"CNRB", "CANARA BANK">>,
       <<"CBIN", "CENTRAL BANK OF INDIA">>,
       <<"CORP", "CORPORATION BANK">>,
       <<"BKDN", "DENA BANK">>,
       <<"IBKL", "IDBI BANK">>,
       <<"IDIB", "INDIAN BANK">>,
       <<"IOBA", "INDIAN OVERSEAS BANK">>,
       <<"ORBC", "ORIENTAL BANK OF COMMERCE">>,
       <<"PSIB", "PUNJAB & SIND BANK">>,
       <<"PUNB", "PUNJAB NATIONAL BANK">>,
       <<"SBBJ", "STATE BANK OF BIKANER & JAIPUR">>,
       <<"SBHY", "STATE BANK OF HYDERABAD">>,
       <<"SBMY", "STATE BANK OF MYSORE">>,
       <<"STBP", "STATE BANK OF PATIALA">>,
       <<"SBTR", "STATE BANK OF TRAVANCORE">>,
       <<"SYNB", "SYNDICATE BANK">>,
       <<"UCBA", "UCO BANK">>,
       <<"UBIN", "UNION BANK OF INDIA">>,
       <<"UTBI", "UNITED BANK OF INDIA">>,
       <<"VIJB", "VIJAYA BANK">>,
       <<"BMBL", "BHARTIYA MAHILA BANK">>,
       <<"UTIB", "AXIS BANK">>,
       <<"HDFC", "HDFC BANK">>,
       <<"ICIC", "ICICI BANK">>,
       <<"INDB", "INDUSIND BANK">>,
       <<"KKBK", "KOTAK MAHINDRA BANK">>,
       <<"YESB", "YES BANK">>,
       <<"DCBL", "DCB BANK">>,
       <<"FDRL", "FEDERAL BANK">>,
       <<"KARB", "KARNATAKA BANK">>,
       <<"KVBL", "KARUR VYSYA BANK">>,
       <<"RATN", "RBL BANK">>,
       <<"SIBL", "SOUTH INDIAN BANK">>,
       <<"TMBL", "TAMILNAD MERCANTILE BANK">>,
       <<"VYSA", "ING VYSYA BANK">>,
       <<"ABHY", "ABHYUDAYA CO-OP BANK">>,
       <<"ASBL", "APNA SAHAKARI BANK">>,
       <<"GSCB", "GUJARAT STATE CO-OP BANK">>,
       <<"HCBL", "HASTI CO-OP BANK">>,
       <<"JSBP", "JANATA SAHAKARI BANK">>,
       <<"MSNU", "MEHSANA URBAN CO-OP BANK">>,
       <<"NTBL", "NAINITAL BANK">>,
       <<"NKGS", "NKGSB CO-OP BANK">>,
       <<"PMCB", "PUNJAB & MAHARASHTRA CO-OP BANK">>,
       <<"SRCB", "SARASWAT BANK">>,
       <<"CIUB", "CITY UNION BANK">>,
       <<"CSBK", "CATHOLIC SYRIAN BANK">>,
       <<"DLXB", "DHANLAXMI BANK">>,
       <<"ESFB", "EQUITAS SMALL FINANCE BANK">>,
       <<"IDFB", "IDFC FIRST BANK">>,
       <<"JAKA", "JAMMU & KASHMIR BANK">>,
       <<"LAVB", "LAKSHMI VILAS BANK">>,
       <<"NSPB", "NSDL PAYMENTS BANK">>,
       <<"PAYU", "PAYU PAYMENTS PRIVATE LIMITED">>,
       <<"PYTM", "PAYTM PAYMENTS BANK">> }

MapHas(bank_code) == \E e \in IFSC_BANK_MAP : e[1] = bank_code
MapGet(bank_code) == (CHOOSE e \in IFSC_BANK_MAP : e[1] = bank_code)[2]

\* a faulty variant of get_bank_name: the prefix is looked up as it is written
get_bank_name_noupper(v) ==
  IF v.kind = "None" \/ Len(v.s) = 0 \/ Len(v.s) < 4
  THEN "UNKNOWN BANK (" \o str(v) \o ")"
  ELSE LET bank_code == SubSeq(v.s, 1, 4)
       IN IF MapHas(bank_code) /\ Len(MapGet(bank_code)) > 0
          THEN MapGet(bank_code)
          ELSE bank_code \o " BANK"

\* get_bank_name(ifsc_code); the argument is a str or None
get_bank_name(v) ==
  IF v.kind = "None" \/ Len(v.s) = 0 \/ Len(v.s) < 4
  THEN "UNKNOWN BANK (" \o str(v) \o ")"
  ELSE LET bank_code == upper(SubSeq(v.s, 1, 4))
       IN IF MapHas(bank_code) /\ Len(MapGet(bank_code)) > 0
          THEN MapGet(bank_code)
          ELSE bank_code \o " BANK"

\* a faulty variant of validate_ifsc: the branch part must be digits
validate_ifsc_digits(s) ==
  IF Len(s) # 11 THEN FALSE
  ELSE IF ~isalpha(SubSeq(s, 1, 4)) THEN FALSE
  ELSE IF CharAt(s, 5) # "0" THEN FALSE
  ELSE IF ~(\A i \in 6..Len(s) : IsDigitChar(CharAt(s, i))) THEN FALSE
  ELSE TRUE

\* validate_ifsc(ifsc_code) on a str
validate_ifsc(s) ==
  IF Len(s) # 11 THEN FALSE
  ELSE IF ~isalpha(SubSeq(s, 1, 4)) THEN FALSE
  ELSE IF CharAt(s, 5) # "0" THEN FALSE
  ELSE IF ~isalnum(SubSeq(s, 6, Len(s))) THEN FALSE
  ELSE TRUE

-----------------------------------------------------------------------------
(* read_excel_data: the loop that groups the rows by IFSC code             *)

\* A row of the data frame, its three resolved columns
Row(account, name, ifsc) == [account |-> account, name |-> name, ifsc |-> ifsc]

\* the IFSC code the loop derives from a row (line 188)
RowIfsc(row) == upper(strip(str(row.ifsc)))

\* the dict appended to the group (lines 195-199)
RowRecord(row) ==
  [account_no |-> strip(str(row.account)),
   account_name |-> strip(str(row.name)),
   ifsc |-> RowIfsc(row)]

\* grouped is a defaultdict(list): a dict keeps its keys in insertion order, so
\* it is a sequence of (key, items); grouped[k].append(rec) creates k at the end
HasKey(g, k) == \E i \in 1..Len(g) : g[i].key = k
KeyIndex(g, k) == CHOOSE i \in 1..Len(g) : g[i].key = k

\* a faulty variant of DictAppend: a new key is put before the others
DictAppend_front(g, k, rec) ==
  IF HasKey(g, k)
  THEN [g EXCEPT ![KeyIndex(g, k)].items = Append(@, rec)]
  ELSE <<[key |-> k, items |-> <<rec>>]>> \o g

DictAppend(g, k, rec) ==
  IF HasKey(g, k)
  THEN [g EXCEPT ![KeyIndex(g, k)].items = Append(@, rec)]
  ELSE Append(g, [key |-> k, items |-> <<rec>>])

\* a faulty variant of GroupRow: the `continue` of line 193 is missing
GroupRow_nocontinue(st, row) ==
  LET ifsc == RowIfsc(row)
  IN [grouped |-> DictAppend(st.grouped, ifsc, RowRecord(row)),
      invalid_ifsc |-> IF ~validate_ifsc(ifsc) THEN Append(st.invalid_ifsc, ifsc)
                       ELSE st.invalid_ifsc]

\* one iteration of the loop (lines 187-199) on the pair (grouped, invalid_ifsc)
GroupRow(st, row) ==
  LET ifsc == RowIfsc(row)
  IN IF ~validate_ifsc(ifsc)
     THEN [grouped |-> st.grouped, invalid_ifsc |-> Append(st.invalid_ifsc, ifsc)]
     ELSE [grouped |-> DictAppend(st.grouped, ifsc, RowRecord(row)),
           invalid_ifsc |-> st.invalid_ifsc]

\* the whole loop, as main sees it (read_excel_data returns grouped)
RECURSIVE GroupRows(_, _)
GroupRows(st, rows) ==
  IF Len(rows) = 0 THEN st ELSE GroupRows(GroupRow(st, Head(rows)), Tail(rows))

read_excel_data(rows) == GroupRows([grouped |-> <<>>, invalid_ifsc |-> <<>>], rows).grouped

-----------------------------------------------------------------------------
(* The document model (python-docx): what the code reads and writes        *)
(*                                                                         *)
(* A run carries its text, bold (None/True/False), colour, font name ("" is *)
(* None) and font size in half-points (0 is None). A paragraph is its runs. *)
(* A table has len(table.columns) grid columns and rows of cells; a cell    *)
(* holds paragraphs and spans grid columns (w:gridSpan). Paragraph and      *)
(* table formats that no text depends on (alignment, spacing, indents,      *)
(* widths, heights, margins, borders, style names) are left out.            *)

MkRun(text, bold, color, font_name, font_sz) ==
  [text |-> text, bold |-> bold, color |-> color, font_name |-> font_name, font_sz |-> font_sz]
PlainRun(text) == MkRun(text, "None", "", "", 0)
MkPara(runs) == [runs |-> runs]
MkCell(paras, span) == [paras |-> paras, span |-> span]
MkTable(ncols, rows) == [ncols |-> ncols, rows |-> rows]
MkDoc(paragraphs, tables) == [paragraphs |-> paragraphs, tables |-> tables]

RECURSIVE Join(_, _)
Join(strs, sep) ==
  IF Len(strs) = 0 THEN ""
  ELSE IF Len(strs) = 1 THEN strs[1]
  ELSE strs[1] \o sep \o Join(Tail(strs), sep)

\* Paragraph.text: the runs' text, concatenated
ParaText(p) == Join([i \in 1..Len(p.runs) |-> p.runs[i].text], "")

\* Paragraph.text = t: the content is cleared and one new run holds the text
SetParaText(p, t) == [p EXCEPT !.runs = <<PlainRun(t)>>]

\* _Cell.text: the paragraphs' text joined by newlines
CellText(c) == Join([i \in 1..Len(c.paras) |-> ParaText(c.paras[i])], "\n")

\* _Cell.text = t: the content is cleared and one paragraph with one run holds it
SetCellText(c, t) == [c EXCEPT !.paras = <<MkPara(<<PlainRun(t)>>)>>]

\* _Row.cells: one entry per grid column, so a cell that spans k columns is
\* met k times; the entries are the positions of the cells in the row
RECURSIVE RowCellsFrom(_, _)
RowCellsFrom(row, j) ==
  IF j > Len(row) THEN <<>>
  ELSE [k \in 1..row[j].span |-> j] \o RowCellsFrom(row, j + 1)

RowCells(row) == RowCellsFrom(row, 1)

\* table.add_row(): one empty cell per grid column
NewRow(t) == [c \in 1..t.ncols |-> MkCell(<<MkPara(<<>>)>>, 1)]

-----------------------------------------------------------------------------
(* _detect_tone, _apply_tone                                               *)

UrgentKeywords == <<"urgent", "immediate", "final notice", "last reminder">>
FriendlyKeywords == <<"kindly", "please", "request", "cooperate">>
AnyIn(keys, text) == \E i \in 1..Len(keys) : Contains(keys[i], text)

\* a faulty variant of _detect_tone: the friendly keywords are tried first
detect_tone_friendly_first(d) ==
  LET text == Join([i \in 1..Len(d.paragraphs) |-> lower(ParaText(d.paragraphs[i]))], " ")
  IN IF AnyIn(FriendlyKeywords, text) THEN "friendly"
     ELSE IF AnyIn(UrgentKeywords, text) THEN "urgent"
     ELSE "formal"

\* _detect_tone(doc)
detect_tone(d) ==
  LET text == Join([i \in 1..Len(d.paragraphs) |-> lower(ParaText(d.paragraphs[i]))], " ")
  IN IF AnyIn(UrgentKeywords, text) THEN "urgent"
     ELSE IF AnyIn(FriendlyKeywords, text) THEN "friendly"
     ELSE "formal"

\* lines 251-254: the tone _apply_tone works with
ResolveTone(d, t) ==
  LET t1 == IF t = "auto" THEN detect_tone(d) ELSE t
  IN IF t1 \notin {"formal", "urgent", "friendly"} THEN "formal" ELSE t1

\* lines 262-265 on one paragraph
ToneParagraph(p, t) ==
  IF t = "urgent" /\ AnyIn(<<"notice", "urgent">>, lower(ParaText(p)))
  THEN [p EXCEPT !.runs = [i \in 1..Len(p.runs) |->
                             [p.runs[i] EXCEPT !.bold = "True", !.color = "990000"]]]
  ELSE p

\* _apply_tone(doc, tone) as update_word_template calls it, without the font
\* overrides (lines 258-261 are then skipped)
apply_tone(d, t) ==
  LET t2 == ResolveTone(d, t)
  IN [d EXCEPT !.paragraphs = [i \in 1..Len(d.paragraphs) |-> ToneParagraph(d.paragraphs[i], t2)]]

-----------------------------------------------------------------------------
(* _extract_template_baseline                                              *)

\* int(r.font.size.pt) of a size in half-points
SizePt(sz) == sz \div 2

AllRuns(d) ==
  LET RECURSIVE From(_)
      From(i) == IF i > Len(d.paragraphs) THEN <<>>
                 ELSE d.paragraphs[i].runs \o From(i + 1)
  IN From(1)

\* lines 321-335: the scan stops at the first run after which both are set
RECURSIVE ScanFonts(_, _, _, _)
ScanFonts(runs, i, font_name, font_size) ==
  IF i > Len(runs) THEN [font_name |-> font_name, font_size |-> font_size]
  ELSE LET fn == IF runs[i].font_name # "" THEN runs[i].font_name ELSE font_name
           fs == IF runs[i].font_sz # 0 THEN SizePt(runs[i].font_sz) ELSE font_size
       IN IF fn # "" /\ fs # 0
          THEN [font_name |-> fn, font_size |-> fs]
          ELSE ScanFonts(runs, i + 1, fn, fs)

\* lines 345-346 and 465-467: the test that makes a table the accounts table
HeaderText(t) ==
  LET cells == RowCells(t.rows[1])
  IN lower(Join([k \in 1..Len(cells) |-> CellText(t.rows[1][cells[k]])], ""))

IsAccountsTable(t) ==
  /\ t.ncols = 3
  /\ Contains("account", HeaderText(t))
  /\ Contains("ifsc", HeaderText(t))

\* the first table of doc.tables that passes the test, 0 when none does
FirstAccountsTable(d) ==
  IF \E i \in 1..Len(d.tables) : IsAccountsTable(d.tables[i])
  THEN CHOOSE i \in 1..Len(d.tables) :
         /\ IsAccountsTable(d.tables[i])
         /\ \A j \in 1..(i - 1) : ~IsAccountsTable(d.tables[j])
  ELSE 0

extract_template_baseline(d, fallback_font_name, fallback_font_size) ==
  LET f == ScanFonts(AllRuns(d), 1, "", 0)
  IN [font_name |-> IF f.font_name = "" THEN fallback_font_name ELSE f.font_name,
      font_size |-> IF f.font_size = 0 THEN fallback_font_size ELSE f.font_size,
      header_table |-> FirstAccountsTable(d)]

-----------------------------------------------------------------------------
(* update_word_template: placeholder replacement (lines 449-461)           *)

\* lines 452-453 and 460-461 on one paragraph
ReplaceInParagraph(p, ph, bank) ==
  IF Contains(ph, ParaText(p))
  THEN SetParaText(p, replace(ParaText(p), ph, bank))
  ELSE p

\* lines 451-453: every paragraph of doc.paragraphs
ReplaceInBody(d, ph, bank) ==
  [d EXCEPT !.paragraphs =
     [i \in 1..Len(d.paragraphs) |-> ReplaceInParagraph(d.paragraphs[i], ph, bank)]]

ReplaceInCell(c, ph, bank) ==
  [c EXCEPT !.paras = [i \in 1..Len(c.paras) |-> ReplaceInParagraph(c.paras[i], ph, bank)]]

\* lines 458-461: `for cell in row.cells`, entry k onwards of RowCells(row)
RECURSIVE ReplaceInRowFrom(_, _, _, _, _)
ReplaceInRowFrom(row, cells, k, ph, bank) ==
  IF k > Len(cells) THEN row
  ELSE ReplaceInRowFrom([row EXCEPT ![cells[k]] = ReplaceInCell(@, ph, bank)],
                        cells, k + 1, ph, bank)

ReplaceInTable(t, ph, bank) ==
  [t EXCEPT !.rows =
     [r \in 1..Len(t.rows) |-> ReplaceInRowFrom(t.rows[r], RowCells(t.rows[r]), 1, ph, bank)]]

\* lines 456-461: every table of doc.tables
ReplaceInTables(d, ph, bank) ==
  [d EXCEPT !.tables = [i \in 1..Len(d.tables) |-> ReplaceInTable(d.tables[i], ph, bank)]]

-----------------------------------------------------------------------------
(* update_word_template: the accounts table (lines 464-499)                *)

\* _apply_paragraph_style on the paragraphs of a cell: the runs' font
StyleCell(c, font_name, font_size) ==
  [c EXCEPT !.paras = [i \in 1..Len(c.paras) |->
     [runs |-> [j \in 1..Len(c.paras[i].runs) |->
                  [c.paras[i].runs[j] EXCEPT !.font_name = font_name,
                                             !.font_sz = 2 * font_size]]]]]

BoldCell(c) ==
  [c EXCEPT !.paras = [i \in 1..Len(c.paras) |->
     [runs |-> [j \in 1..Len(c.paras[i].runs) |-> [c.paras[i].runs[j] EXCEPT !.bold = "True"]]]]]

\* lines 468-474: the header row, restyled and set bold
HeaderRow(row, base) ==
  [j \in 1..Len(row) |-> BoldCell(StyleCell(row[j], base.font_name, base.font_size))]

\* lines 481-488: the row added for one account
AccountRow(t, account, base) ==
  LET row == NewRow(t)
      texts == <<account.account_no, account.account_name, account.ifsc>>
  IN [c \in 1..Len(row) |->
        StyleCell(IF c <= 3 THEN SetCellText(row[c], texts[c]) ELSE row[c],
                  base.font_name, base.font_size)]

\* lines 468-498 on the table found
RegenerateTable(t, accts, base) ==
  [t EXCEPT !.rows = <<HeaderRow(t.rows[1], base)>>
                       \o [i \in 1..Len(accts) |-> AccountRow(t, accts[i], base)]]

\* lines 464-499: the first table that passes the test is regenerated
UpdateAccountsTable(d, accts, base) ==
  LET i == FirstAccountsTable(d)
  IN IF i = 0 THEN d
     ELSE [d EXCEPT !.tables[i] = RegenerateTable(@, accts, base)]

-----------------------------------------------------------------------------
(* update_word_template: the nodal officer (lines 501-515)                 *)

IsNodal(text) == Contains("nodal officer", lower(text))

\* lines 381-390: the first font name, size and bold among the runs
RECURSIVE ScanNodalRuns(_, _, _, _, _)
ScanNodalRuns(runs, i, font_name, font_size, bold) ==
  IF i > Len(runs) THEN [font_name |-> font_name, font_size |-> font_size, bold |-> bold]
  ELSE ScanNodalRuns(runs, i + 1,
         IF runs[i].font_name # "" /\ font_name = "" THEN runs[i].font_name ELSE font_name,
         IF runs[i].font_sz # 0 /\ font_size = 0 THEN SizePt(runs[i].font_sz) ELSE font_size,
         IF bold = "None" /\ runs[i].bold # "None" THEN runs[i].bold ELSE bold)

extract_nodal_baseline(d, fallback_font, fallback_size) ==
  LET n == Len(d.paragraphs)
      found == \E i \in 1..n : IsNodal(ParaText(d.paragraphs[i]))
      first == CHOOSE i \in 1..n :
                 /\ IsNodal(ParaText(d.paragraphs[i]))
                 /\ \A j \in 1..(i - 1) : ~IsNodal(ParaText(d.paragraphs[j]))
      got == IF found /\ first + 1 <= n
             THEN ScanNodalRuns(d.paragraphs[first + 1].runs, 1, "", 0, "None")
             ELSE [font_name |-> "", font_size |-> 0, bold |-> "None"]
  IN [font_name |-> IF got.font_name = "" THEN fallback_font ELSE got.font_name,
      font_size |-> IF got.font_size = 0 THEN fallback_size ELSE got.font_size,
      bold |-> got.bold]

\* _apply_baseline_to_paragraph: the text, then the runs' font and bold
apply_baseline_to_paragraph(p, text, baseline) ==
  LET q == SetParaText(p, text)
  IN [q EXCEPT !.runs = [j \in 1..Len(q.runs) |->
        [q.runs[j] EXCEPT
           !.font_name = baseline.font_name,
           !.font_sz = IF baseline.font_size # 0 THEN 2 * baseline.font_size ELSE @,
           !.bold = IF baseline.bold # "None" THEN baseline.bold ELSE @]]]

\* lines 502-506: paragraph i onwards; each test reads the text as it is then
RECURSIVE NodalParagraphsFrom(_, _, _, _)
NodalParagraphsFrom(paras, i, bank, baseline) ==
  IF i > Len(paras) THEN paras
  ELSE IF IsNodal(ParaText(paras[i])) /\ i + 1 <= Len(paras)
       THEN NodalParagraphsFrom(
              [paras EXCEPT ![i + 1] = apply_baseline_to_paragraph(@, bank, baseline)],
              i + 1, bank, baseline)
       ELSE NodalParagraphsFrom(paras, i + 1, bank, baseline)

NodalParagraphs(d, bank, baseline) ==
  [d EXCEPT !.paragraphs = NodalParagraphsFrom(d.paragraphs, 1, bank, baseline)]

\* table.cell(r, c), both counted from 0: entry c + r * ncols of the cells of
\* all rows, as <<row, position in the row>>
FlatCells(t) ==
  LET RECURSIVE From(_)
      From(r) == IF r > Len(t.rows) THEN <<>>
                 ELSE LET cells == RowCells(t.rows[r])
                      IN [k \in 1..Len(cells) |-> <<r, cells[k]>>] \o From(r + 1)
  IN From(1)

\* lines 509-515: row r, entry c of its cells onwards
RECURSIVE NodalCellsFrom(_, _, _, _, _)
NodalCellsFrom(t, r, c, bank, baseline) ==
  IF r > Len(t.rows) THEN t
  ELSE IF c > Len(RowCells(t.rows[r])) THEN NodalCellsFrom(t, r + 1, 1, bank, baseline)
  ELSE LET cell == t.rows[r][RowCells(t.rows[r])[c]]
       IN IF IsNodal(CellText(cell)) /\ r + 1 <= Len(t.rows)
          THEN LET at == FlatCells(t)[(c - 1) + r * t.ncols + 1]
                   target == t.rows[at[1]][at[2]]
                   done == [target EXCEPT !.paras = [i \in 1..Len(target.paras) |->
                              apply_baseline_to_paragraph(target.paras[i], bank, baseline)]]
               IN NodalCellsFrom([t EXCEPT !.rows[at[1]][at[2]] = done],
                                 r, c + 1, bank, baseline)
          ELSE NodalCellsFrom(t, r, c + 1, bank, baseline)

\* lines 508-515: every table of doc.tables
NodalCells(d, bank, baseline) ==
  [d EXCEPT !.tables =
     [i \in 1..Len(d.tables) |-> NodalCellsFrom(d.tables[i], 1, 1, bank, baseline)]]

-----------------------------------------------------------------------------
(* update_word_template, statement by statement                            *)

DefaultFontName == "Bookman Old Style"
DefaultFontSize == 8

EmptyDoc == MkDoc(<<>>, <<>>)
NoBaseline == [font_name |-> "", font_size |-> 0, header_table |-> 0]
NoNodalBaseline == [font_name |-> "", font_size |-> 0, bold |-> "None"]

\* a faulty variant of Document: the document object of an earlier call is reused
Document_cached(file, memory) == IF memory = EmptyDoc THEN file ELSE memory

\* Document(template_file): a document read from the file; `memory` is the
\* document object an earlier call left behind, which the constructor ignores
Document(file, memory) == file

\* the text a reader of the document sees: paragraphs, and cells row by row
VisibleText(d) ==
  [paragraphs |-> [i \in 1..Len(d.paragraphs) |-> ParaText(d.paragraphs[i])],
   tables |-> [t \in 1..Len(d.tables) |->
                 [r \in 1..Len(d.tables[t].rows) |->
                    [c \in 1..Len(d.tables[t].rows[r]) |-> CellText(d.tables[t].rows[r][c])]]]]

\* lines 445-446
UwtOpen ==
  /\ upc = "call"
  /\ doc' = Document(template_file, doc)
  /\ tmpl' = extract_template_baseline(doc', DefaultFontName, DefaultFontSize)
  /\ upc' = "tone"
  /\ UNCHANGED <<tone_used, regen_table, nodal_baseline, ret>>
  /\ UNCHANGED <<ifscVars, groupVars, argVars, mainVars, out_dir>>

\* line 445 raises (the template cannot be read): lines 520-522
UwtOpenFail ==
  /\ upc = "call"
  /\ upc' = "returned"
  /\ ret' = "False"
  /\ UNCHANGED <<doc, tmpl, tone_used, regen_table, nodal_baseline>>
  /\ UNCHANGED <<ifscVars, groupVars, argVars, mainVars, out_dir>>

\* line 447
UwtApplyTone ==
  /\ upc = "tone"
  /\ tone_used' = ResolveTone(doc, tone)
  /\ doc' = apply_tone(doc, tone)
  /\ upc' = "replace_paragraphs"
  /\ UNCHANGED <<tmpl, regen_table, nodal_baseline, ret>>
  /\ UNCHANGED <<ifscVars, groupVars, argVars, mainVars, out_dir>>

\* lines 451-453
UwtReplaceParagraphs ==
  /\ upc = "replace_paragraphs"
  /\ doc' = ReplaceInBody(doc, placeholder, bank_name)
  /\ upc' = "replace_tables"
  /\ UNCHANGED <<tmpl, tone_used, regen_table, nodal_baseline, ret>>
  /\ UNCHANGED <<ifscVars, groupVars, argVars, mainVars, out_dir>>

\* lines 456-461
UwtReplaceTables ==
  /\ upc = "replace_tables"
  /\ doc' = ReplaceInTables(doc, placeholder, bank_name)
  /\ upc' = "accounts_table"
  /\ UNCHANGED <<tmpl, tone_used, regen_table, nodal_baseline, ret>>
  /\ UNCHANGED <<ifscVars, groupVars, argVars, mainVars, out_dir>>

\* lines 464-499
UwtAccountsTable ==
  /\ upc = "accounts_table"
  /\ regen_table' = FirstAccountsTable(doc)
  /\ doc' = UpdateAccountsTable(doc, accounts, tmpl)
  /\ upc' = "nodal_paragraphs"
  /\ UNCHANGED <<tmpl, tone_used, nodal_baseline, ret>>
  /\ UNCHANGED <<ifscVars, groupVars, argVars, mainVars, out_dir>>

\* lines 501-506
UwtNodalParagraphs ==
  /\ upc = "nodal_paragraphs"
  /\ nodal_baseline' = extract_nodal_baseline(doc, tmpl.font_name, tmpl.font_size)
  /\ doc' = NodalParagraphs(doc, bank_name, nodal_baseline')
  /\ upc' = "nodal_cells"
  /\ UNCHANGED <<tmpl, tone_used, regen_table, ret>>
  /\ UNCHANGED <<ifscVars, groupVars, argVars, mainVars, out_dir>>

\* lines 508-515
UwtNodalCells ==
  /\ upc = "nodal_cells"
  /\ doc' = NodalCells(doc, bank_name, nodal_baseline)
  /\ upc' = "save"
  /\ UNCHANGED <<tmpl, tone_used, regen_table, nodal_baseline, ret>>
  /\ UNCHANGED <<ifscVars, groupVars, argVars, mainVars, out_dir>>

\* what doc.save(output_file) leaves in the output directory
SavedFile(dir, path, d, bank, accts) ==
  [doc |-> d, bank_name |-> bank, accounts |-> accts,
   writes |-> IF path \in DOMAIN dir THEN dir[path].writes + 1 ELSE 1]

\* lines 518-519
UwtSave ==
  /\ upc = "save"
  /\ out_dir' = (output_file :> SavedFile(out_dir, output_file, doc, bank_name, accounts))
                  @@ out_dir
  /\ ret' = "True"
  /\ upc' = "returned"
  /\ UNCHANGED <<doc, tmpl, tone_used, regen_table, nodal_baseline>>
  /\ UNCHANGED <<ifscVars, groupVars, argVars, mainVars>>

\* line 518 raises (the output path cannot be written): lines 520-522
UwtSaveFail ==
  /\ upc = "save"
  /\ ret' = "False"
  /\ upc' = "returned"
  /\ UNCHANGED <<doc, tmpl, tone_used, regen_table, nodal_baseline>>
  /\ UNCHANGED <<ifscVars, groupVars, argVars, mainVars, out_dir>>

-----------------------------------------------------------------------------
(* main: lines 557-583                                                     *)

\* line 572
OutputPath(bank, ifsc) == "Notice_" \o replace(bank, " ", "_") \o "_" \o ifsc \o ".docx"

\* a faulty variant of AfterCall: a failed notice ends the loop
AfterCall_break(returned, count, idx, n) ==
  IF returned = "True"
  THEN [success_count |-> count + 1, group_idx |-> idx + 1]
  ELSE [success_count |-> count, group_idx |-> n]

\* lines 576-580 and the step of the for loop: n is len(grouped_data)
AfterCall(returned, count, idx, n) ==
  IF returned = "True"
  THEN [success_count |-> count + 1, group_idx |-> idx + 1]
  ELSE [success_count |-> count, group_idx |-> idx + 1]

\* lines 557-569: the rows are grouped; no group at all ends the run
MainRead ==
  /\ mpc = "start"
  /\ grouped_data' = read_excel_data(df)
  /\ mpc' = IF Len(grouped_data') = 0 THEN "done" ELSE "loop"
  /\ group_idx' = 0
  /\ success_count' = 0
  /\ UNCHANGED <<run, attempted, returns>>
  /\ UNCHANGED <<ifscVars, groupVars, argVars, localVars, out_dir>>

\* lines 570-576: the next group, up to the call of update_word_template
MainCall ==
  /\ mpc = "loop"
  /\ group_idx < Len(grouped_data)
  /\ LET g == grouped_data[group_idx + 1]
     IN /\ bank_name' = get_bank_name(StrVal(g.key))
        /\ output_file' = OutputPath(bank_name', g.key)
        /\ accounts' = g.items
        /\ attempted' = Append(attempted, g.key)
  /\ upc' = "call"
  /\ ret' = "unset"
  /\ mpc' = "in_call"
  /\ UNCHANGED <<template_file, placeholder, tone>>
  /\ UNCHANGED <<doc, tmpl, tone_used, regen_table, nodal_baseline>>
  /\ UNCHANGED <<run, grouped_data, group_idx, success_count, returns>>
  /\ UNCHANGED <<ifscVars, groupVars, out_dir>>

\* lines 576-580: the call has returned
MainReturn ==
  /\ mpc = "in_call"
  /\ upc = "returned"
  /\ LET st == AfterCall(ret, success_count, group_idx, Len(grouped_data))
     IN /\ success_count' = st.success_count
        /\ group_idx' = st.group_idx
  /\ returns' = Append(returns, ret)
  /\ mpc' = "loop"
  /\ UNCHANGED <<run, grouped_data, attempted>>
  /\ UNCHANGED <<ifscVars, groupVars, argVars, localVars, out_dir>>

\* lines 582-585: the loop is over
MainDone ==
  /\ mpc = "loop"
  /\ group_idx >= Len(grouped_data)
  /\ mpc' = "done"
  /\ UNCHANGED <<run, grouped_data, group_idx, success_count, attempted, returns>>
  /\ UNCHANGED <<ifscVars, groupVars, argVars, localVars, out_dir>>

-----------------------------------------------------------------------------
(* Inputs                                                                  *)

MaxRows == 3
MaxMainRows == 2
MaxParas == 3
MaxTables == 2
MaxAccounts == 2

SeqsUpTo(S, n) == UNION {[1..k -> S] : k \in 0..n}

\* arguments for get_bank_name and validate_ifsc: a prefix, a fifth character
\* and a branch part, each well-formed or not, so that every clause of the
\* format is met and missed at every length from 0 to 12
CodePrefixes == {"SBIN", "sbin", "HdFc", "ZZZZ", "SB1N", "SB N", "AB", ""}
CodeFifths == {"0", "1", "O", ""}
CodeTails == {"001234", "00123A", "a0b1c2", "00123", "0012345", "00 234", "00-234", ""}

CodeInputs ==
  {StrVal(p \o f \o t) : p \in CodePrefixes, f \in CodeFifths, t \in CodeTails}
    \cup {NoneVal}

RowPool ==
  { Row(IntVal(101), StrVal("Asha "), StrVal(" sbin0001234")),
    Row(StrVal("102"), StrVal("Ravi"), StrVal("SBIN0001234")),
    Row(IntVal(103), StrVal("Mira"), StrVal("HDFC0000001")),
    Row(StrVal(" 104"), StrVal("Omar"), StrVal("hdfc0000001 ")),
    Row(IntVal(105), StrVal("Lata"), StrVal("SBIN001234")),
    Row(IntVal(106), NanVal, NanVal) }

\* the rows main reads: two accounts of one branch and one of another
MainRowPool ==
  { Row(IntVal(101), StrVal("Asha"), StrVal("SBIN0001234")),
    Row(IntVal(102), StrVal("Ravi"), StrVal("sbin0001234 ")),
    Row(IntVal(103), StrVal("Mira"), StrVal("HDFC0000001")),
    Row(IntVal(104), StrVal("Omar"), StrVal("HDFC00")) }

\* paragraphs of a template
TextPara(text) == MkPara(<<PlainRun(text)>>)
P_to == MkPara(<<MkRun("To ", "None", "", "Arial", 20), MkRun("ICICI BANK", "True", "", "", 0)>>)
P_nodal == MkPara(<<MkRun("The Nodal Officer", "True", "", "", 0)>>)
P_notice == MkPara(<<MkRun("FINAL NOTICE", "None", "", "", 0), MkRun(" to ICICI BANK", "None", "", "", 0)>>)
P_kindly == TextPara("Kindly cooperate")
P_last == TextPara("Last")
P_reminder == TextPara("Reminder sent")

NoticeParaPool == {P_to, P_nodal}
ToneParaPool == {P_notice, P_kindly, P_last, P_reminder}

\* paragraphs whose runs set a font name, a font size, both or neither
F_name == MkPara(<<MkRun("Dear Sir", "None", "", "Arial", 0)>>)
F_size == MkPara(<<MkRun("Ref", "None", "", "", 21)>>)
F_both == MkPara(<<MkRun("Subject", "None", "", "Calibri", 24)>>)
F_runs == MkPara(<<PlainRun("Date "), MkRun("today", "None", "", "Georgia", 0),
                   MkRun(".", "None", "", "", 28)>>)
FontParaPool == {F_name, F_size, F_both, F_runs}

\* tables of a template
TextCell(text) == MkCell(<<TextPara(text)>>, 1)
WideCell(text, span) == MkCell(<<TextPara(text)>>, span)

\* the accounts table with one sample row
T_accounts ==
  MkTable(3, << <<TextCell("Account No"), TextCell("Account Name"), TextCell("IFSC Code")>>,
                <<TextCell("000111"), TextCell("Sample Name"), TextCell("ICIC0000001")>> >>)
\* a second table that passes the accounts test, with two rows under the header
T_ledger ==
  MkTable(3, << <<TextCell("ACCOUNT"), TextCell("HOLDER"), TextCell("IFSC")>>,
                <<TextCell("1"), TextCell("a"), TextCell("b")>>,
                <<TextCell("2"), TextCell("c"), TextCell("d")>> >>)
\* a two-column table: a title cell merged over both columns, a label row, a value row
T_contact ==
  MkTable(2, << <<WideCell("Contact ICICI BANK", 2)>>,
                <<TextCell("Nodal Officer"), TextCell("Phone")>>,
                <<TextCell("ICICI BANK"), TextCell("12345")>> >>)

TablePool == {T_accounts, T_ledger, T_contact}

\* (placeholder, bank_name): a placeholder that the bank name contains, and a
\* placeholder that occurs in the header of the accounts table (the default
\* placeholder "ICICI BANK" is the one of SpecTone and SpecMain)
ReplacePairs ==
  { <<"BANK", "STATE BANK OF INDIA">>,
    <<"Account", "HDFC BANK">> }

Account(no, name, ifsc) == [account_no |-> no, account_name |-> name, ifsc |-> ifsc]
AccountPool ==
  { Account("101", "Asha", "HDFC0000001"),
    Account("102", "Nodal Officer Ravi", "HDFC0000001") }

Tones == {"formal", "urgent", "friendly", "auto", "URGENT"}

\* templates main runs on
MainTemplates ==
  { MkDoc(<<P_to, P_nodal, TextPara("x")>>, <<T_accounts>>),
    MkDoc(<<P_nodal, P_notice>>, <<T_contact>>) }

-----------------------------------------------------------------------------
(* Specification SpecIfsc: the two pure functions on every input           *)

IdleIfsc ==
  /\ ifsc_code = NoneVal
  /\ valid_result = "unset"
  /\ name_result = [done |-> FALSE, s |-> ""]

IdleGroup ==
  /\ df = <<>>
  /\ row_idx = 0
  /\ grouped = <<>>
  /\ invalid_ifsc = <<>>
  /\ gpc = "idle"

IdleNotice ==
  /\ template_file = EmptyDoc
  /\ output_file = ""
  /\ bank_name = ""
  /\ accounts = <<>>
  /\ placeholder = ""
  /\ tone = ""
  /\ doc = EmptyDoc
  /\ tmpl = NoBaseline
  /\ tone_used = ""
  /\ regen_table = 0
  /\ nodal_baseline = NoNodalBaseline
  /\ upc = "idle"
  /\ ret = "unset"
  /\ out_dir = <<>>

IdleMain ==
  /\ mpc = "idle"
  /\ run = ""
  /\ grouped_data = <<>>
  /\ group_idx = 0
  /\ success_count = 0
  /\ attempted = <<>>
  /\ returns = <<>>

InitIfsc ==
  /\ ifsc_code \in CodeInputs
  /\ valid_result = "unset"
  /\ name_result = [done |-> FALSE, s |-> ""]
  /\ IdleGroup
  /\ IdleNotice
  /\ IdleMain

\* validate_ifsc(ifsc_code): len(None) raises TypeError
CallValidateIfsc ==
  /\ valid_result = "unset"
  /\ valid_result' =
       IF ifsc_code.kind # "str" THEN "TypeError"
       ELSE IF validate_ifsc(ifsc_code.s) THEN "True" ELSE "False"
  /\ UNCHANGED <<ifsc_code, name_result>>
  /\ UNCHANGED <<groupVars, argVars, localVars, mainVars, out_dir>>

CallGetBankName ==
  /\ ~name_result.done
  /\ name_result' = [done |-> TRUE, s |-> get_bank_name(ifsc_code)]
  /\ UNCHANGED <<ifsc_code, valid_result>>
  /\ UNCHANGED <<groupVars, argVars, localVars, mainVars, out_dir>>

-----------------------------------------------------------------------------
(* Specification SpecGroup: read_excel_data, one row per step              *)

InitGroup ==
  /\ df \in SeqsUpTo(RowPool, MaxRows)
  /\ row_idx = 0
  /\ grouped = <<>>
  /\ invalid_ifsc = <<>>
  /\ gpc = "loop"
  /\ IdleIfsc
  /\ IdleNotice
  /\ IdleMain

\* lines 187-199: the next row of df.iterrows()
ReadRow ==
  /\ gpc = "loop"
  /\ row_idx < Len(df)
  /\ LET st == GroupRow([grouped |-> grouped, invalid_ifsc |-> invalid_ifsc],
                        df[row_idx + 1])
     IN /\ grouped' = st.grouped
        /\ invalid_ifsc' = st.invalid_ifsc
  /\ row_idx' = row_idx + 1
  /\ UNCHANGED <<df, gpc>>
  /\ UNCHANGED <<ifscVars, argVars, localVars, mainVars, out_dir>>

\* lines 201-208: the loop is over, grouped is returned
ReadReturn ==
  /\ gpc = "loop"
  /\ row_idx = Len(df)
  /\ gpc' = "returned"
  /\ UNCHANGED <<df, row_idx, grouped, invalid_ifsc>>
  /\ UNCHANGED <<ifscVars, argVars, localVars, mainVars, out_dir>>

-----------------------------------------------------------------------------
(* Specifications SpecNotice and SpecTone: one call of update_word_template *)

InitCall ==
  /\ output_file = "notice.docx"
  /\ doc = EmptyDoc
  /\ tmpl = NoBaseline
  /\ tone_used = ""
  /\ regen_table = 0
  /\ nodal_baseline = NoNodalBaseline
  /\ upc = "call"
  /\ ret = "unset"
  /\ out_dir = <<>>
  /\ IdleIfsc
  /\ IdleGroup
  /\ IdleMain

\* templates with tables, nodal officer labels and placeholders
InitNotice ==
  /\ \E ps \in SeqsUpTo(NoticeParaPool, MaxParas), ts \in SeqsUpTo(TablePool, MaxTables) :
       template_file = MkDoc(ps, ts)
  /\ \E pair \in ReplacePairs : placeholder = pair[1] /\ bank_name = pair[2]
  /\ accounts \in SeqsUpTo(AccountPool, MaxAccounts)
  /\ tone = "formal"
  /\ InitCall

\* templates whose paragraphs carry the tone keywords, under every tone value
InitTone ==
  /\ \E ps \in SeqsUpTo(ToneParaPool, MaxParas) : template_file = MkDoc(ps, <<>>)
  /\ placeholder = "ICICI BANK"
  /\ bank_name = "HDFC BANK"
  /\ accounts = <<>>
  /\ tone \in Tones
  /\ InitCall

\* templates whose runs set fonts in every order
InitFonts ==
  /\ \E ps \in SeqsUpTo(FontParaPool, MaxParas) : template_file = MkDoc(ps, <<>>)
  /\ placeholder = "ICICI BANK"
  /\ bank_name = "HDFC BANK"
  /\ accounts = <<>>
  /\ tone = "formal"
  /\ InitCall

-----------------------------------------------------------------------------
(* Specification SpecMain: main run twice on the same template             *)

MainInputs == SeqsUpTo(MainRowPool, MaxMainRows)

InitMain ==
  /\ df \in MainInputs
  /\ row_idx = 0
  /\ grouped = <<>>
  /\ invalid_ifsc = <<>>
  /\ gpc = "idle"
  /\ template_file \in MainTemplates
  /\ placeholder = "ICICI BANK"
  /\ tone = "auto"
  /\ output_file = ""
  /\ bank_name = ""
  /\ accounts = <<>>
  /\ doc = EmptyDoc
  /\ tmpl = NoBaseline
  /\ tone_used = ""
  /\ regen_table = 0
  /\ nodal_baseline = NoNodalBaseline
  /\ upc = "idle"
  /\ ret = "unset"
  /\ out_dir = <<>>
  /\ mpc = "start"
  /\ run = "first"
  /\ grouped_data = <<>>
  /\ group_idx = 0
  /\ success_count = 0
  /\ attempted = <<>>
  /\ returns = <<>>
  /\ IdleIfsc

\* the program is started again on another input file, with the same template,
\* options and output directory
MainRerun ==
  /\ mpc = "done"
  /\ run = "first"
  /\ run' = "second"
  /\ df' \in MainInputs
  /\ mpc' = "start"
  /\ grouped_data' = <<>>
  /\ group_idx' = 0
  /\ success_count' = 0
  /\ attempted' = <<>>
  /\ returns' = <<>>
  /\ doc' = EmptyDoc
  /\ tmpl' = NoBaseline
  /\ tone_used' = ""
  /\ regen_table' = 0
  /\ nodal_baseline' = NoNodalBaseline
  /\ upc' = "idle"
  /\ ret' = "unset"
  /\ UNCHANGED <<row_idx, grouped, invalid_ifsc, gpc>>
  /\ UNCHANGED <<ifscVars, argVars, out_dir>>

-----------------------------------------------------------------------------
(* The specifications                                                      *)

NextIfsc == CallValidateIfsc \/ CallGetBankName
SpecIfsc == InitIfsc /\ [][NextIfsc]_vars

NextGroup == ReadRow \/ ReadReturn
SpecGroup == InitGroup /\ [][NextGroup]_vars

NextNotice ==
  \/ UwtOpen
  \/ UwtOpenFail
  \/ UwtApplyTone
  \/ UwtReplaceParagraphs
  \/ UwtReplaceTables
  \/ UwtAccountsTable
  \/ UwtNodalParagraphs
  \/ UwtNodalCells
  \/ UwtSave
  \/ UwtSaveFail
SpecNotice == InitNotice /\ [][NextNotice]_vars
SpecTone == InitTone /\ [][NextNotice]_vars
SpecFonts == InitFonts /\ [][NextNotice]_vars

NextMain ==
  \/ MainRead
  \/ MainCall
  \/ MainReturn
  \/ MainDone
  \/ MainRerun
  \/ UwtOpen
  \/ UwtOpenFail
  \/ UwtApplyTone
  \/ UwtReplaceParagraphs
  \/ UwtReplaceTables
  \/ UwtAccountsTable
  \/ UwtNodalParagraphs
  \/ UwtNodalCells
  \/ UwtSave
  \/ UwtSaveFail
SpecMain == InitMain /\ [][NextMain]_vars

Spec == SpecMain

-----------------------------------------------------------------------------
(* The claims                                                              *)

Returned == upc = "returned" /\ ret = "True"
\* the document the call saved
Saved == out_dir[output_file].doc
\* the data rows of a table, as the texts of their cells
DataRows(t) ==
  [r \in 1..(Len(t.rows) - 1) |->
     [c \in 1..Len(t.rows[r + 1]) |-> CellText(t.rows[r + 1][c])]]

\* C1: in the saved document every 3-column table of the template whose header
\* text contains "account" and "ifsc" is its header row followed by one row
\* per record, in order, holding account_no, account_name and the code.
C1_AccountsTableHoldsRecords ==
  Returned =>
    \A i \in 1..Len(template_file.tables) :
      IsAccountsTable(template_file.tables[i]) =>
        DataRows(Saved.tables[i]) =
          [r \in 1..Len(accounts) |->
             <<accounts[r].account_no, accounts[r].account_name, accounts[r].ifsc>>]

RECURSIVE SumItems(_)
SumItems(g) == IF Len(g) = 0 THEN 0 ELSE Len(Head(g).items) + SumItems(Tail(g))

\* C2: at every point of the loop of read_excel_data, and when it returns,
\* every key of grouped passes validate_ifsc, no key maps to an empty list, and
\* the invalid codes plus the grouped records count the rows read so far.
C2_GroupingPartitions ==
  /\ \A i \in 1..Len(grouped) : validate_ifsc(grouped[i].key) /\ Len(grouped[i].items) > 0
  /\ \A i, j \in 1..Len(grouped) : grouped[i].key = grouped[j].key => i = j
  /\ Len(invalid_ifsc) + SumItems(grouped) = row_idx
  /\ gpc = "returned" => row_idx = Len(df)

C2_Witness ==
  /\ gpc = "returned"
  /\ Len(df) = MaxRows
  /\ Len(invalid_ifsc) > 0
  /\ Len(grouped) > 1

\* the records of the rows from row i on whose code is k, in row order
RECURSIVE RecordsOf(_, _, _)
RecordsOf(k, i, n) ==
  IF i > n THEN <<>>
  ELSE IF RowIfsc(df[i]) = k THEN <<RowRecord(df[i])>> \o RecordsOf(k, i + 1, n)
  ELSE RecordsOf(k, i + 1, n)

FirstRowOf(k, n) == CHOOSE i \in 1..n : RowIfsc(df[i]) = k /\ \A j \in 1..(i - 1) : RowIfsc(df[j]) # k

\* C3: the keys of grouped stand in the order of the first row that carries
\* each code, every valid code read is a key, and each group holds the records
\* of its rows in row order.
C3_GroupingStable ==
  /\ {grouped[i].key : i \in 1..Len(grouped)} =
       {RowIfsc(df[i]) : i \in {j \in 1..row_idx : validate_ifsc(RowIfsc(df[j]))}}
  /\ \A a, b \in 1..Len(grouped) :
       a < b => FirstRowOf(grouped[a].key, row_idx) < FirstRowOf(grouped[b].key, row_idx)
  /\ \A a \in 1..Len(grouped) : grouped[a].items = RecordsOf(grouped[a].key, 1, row_idx)

C3_Witness ==
  /\ gpc = "returned"
  /\ Len(df) = 3
  /\ Len(grouped) = 2
  /\ RowIfsc(df[1]) = grouped[1].key
  /\ RowIfsc(df[2]) = grouped[2].key
  /\ RowIfsc(df[3]) = grouped[1].key
  /\ Len(grouped[1].items) = 2
  /\ grouped[1].items[1] # grouped[1].items[2]

\* C4: validate_ifsc returns, and returns True exactly for the strings of
\* length 11 whose first four characters are alphabetic, whose fifth is "0" and
\* whose last six are alphanumeric.
C4_ValidateIffFormat ==
  (valid_result # "unset" /\ ifsc_code.kind = "str") =>
    LET s == ifsc_code.s
        wellFormed ==
          /\ Len(s) = 11
          /\ \A i \in 1..4 : IsAlphaChar(CharAt(s, i))
          /\ CharAt(s, 5) = "0"
          /\ \A i \in 6..11 : IsAlphaChar(CharAt(s, i)) \/ IsDigitChar(CharAt(s, i))
    IN /\ valid_result \in {"True", "False"}
       /\ (valid_result = "True") <=> wellFormed
       /\ Len(s) # 11 => valid_result = "False"

C4_Witness ==
  /\ valid_result = "True"
  /\ ifsc_code.kind = "str"
  /\ \E i \in 6..11 : IsAlphaChar(CharAt(ifsc_code.s, i))
  /\ \E i \in 1..4 : IsLowerChar(CharAt(ifsc_code.s, i))

\* C5: get_bank_name returns "UNKNOWN BANK (<code>)" for None and for a code of
\* fewer than 4 characters, the table's entry for the uppercased first four
\* characters when it has one, and "<PREFIX> BANK" otherwise; the name of a
\* valid code is not empty.
C5_BankNameResolution ==
  name_result.done =>
    LET v == ifsc_code
        prefix == upper(SubSeq(v.s, 1, 4))
    IN /\ (v.kind = "None" \/ Len(v.s) < 4) =>
            name_result.s = "UNKNOWN BANK (" \o (IF v.kind = "None" THEN "None" ELSE v.s) \o ")"
       /\ (v.kind = "str" /\ Len(v.s) >= 4) =>
            \/ \E e \in IFSC_BANK_MAP : e[1] = prefix /\ name_result.s = e[2]
            \/ /\ \A e \in IFSC_BANK_MAP : e[1] # prefix
               /\ name_result.s = prefix \o " BANK"
       /\ (v.kind = "str" /\ validate_ifsc(v.s)) => Len(name_result.s) > 0

C5_Witness ==
  /\ name_result.done
  /\ ifsc_code.kind = "str"
  /\ validate_ifsc(ifsc_code.s)
  /\ SubSeq(ifsc_code.s, 1, 4) = "HdFc"
  /\ name_result.s = "HDFC BANK"

\* C6: the loop of main attempts the groups of grouped_data in insertion order,
\* each once; a call that returns False does not end the loop; and at the end
\* success_count is the number of calls that returned True.
C6_LoopAttemptsEveryGroup ==
  /\ mpc \in {"loop", "in_call", "done"} =>
       /\ Len(attempted) <= Len(grouped_data)
       /\ attempted = [i \in 1..Len(attempted) |-> grouped_data[i].key]
       /\ Len(returns) = group_idx
  /\ mpc = "done" =>
       /\ Len(attempted) = Len(grouped_data)
       /\ Len(returns) = Len(grouped_data)
       /\ success_count = Cardinality({i \in 1..Len(returns) : returns[i] = "True"})

C6_Witness ==
  /\ mpc = "done"
  /\ Len(grouped_data) = 2
  /\ returns = <<"False", "True">>
  /\ success_count = 1

\* C7: in the saved document the paragraph after every template paragraph that
\* contains "nodal officer" holds exactly bank_name.
C7_NodalFollowerIsBankName ==
  Returned =>
    \A i \in 1..(Len(template_file.paragraphs) - 1) :
      IsNodal(ParaText(template_file.paragraphs[i])) =>
        ParaText(Saved.paragraphs[i + 1]) = bank_name

\* C8: after the replacement step every body paragraph and every paragraph of
\* every table cell holds its template text with each occurrence of the
\* placeholder replaced by bank_name (a text without the placeholder is kept).
C8_PlaceholderReplacedEverywhere ==
  upc = "accounts_table" =>
    /\ \A i \in 1..Len(template_file.paragraphs) :
         ParaText(doc.paragraphs[i]) =
           replace(ParaText(template_file.paragraphs[i]), placeholder, bank_name)
    /\ \A t \in 1..Len(template_file.tables) :
         \A r \in 1..Len(template_file.tables[t].rows) :
           \A c \in 1..Len(template_file.tables[t].rows[r]) :
             \A q \in 1..Len(template_file.tables[t].rows[r][c].paras) :
               ParaText(doc.tables[t].rows[r][c].paras[q]) =
                 replace(ParaText(template_file.tables[t].rows[r][c].paras[q]),
                         placeholder, bank_name)

\* C9: a notice written again to the same path for the same records has the
\* same visible text as the one it replaces, whatever groups were processed
\* before either of them; and no step changes the template.
C9_NoticeDeterministic ==
  [][/\ template_file' = template_file
     /\ \A k \in DOMAIN out_dir :
          (out_dir'[k].writes # out_dir[k].writes /\ out_dir'[k].accounts = out_dir[k].accounts)
            => VisibleText(out_dir'[k].doc) = VisibleText(out_dir[k].doc)]_vars

\* a notice generated for the second time, this time after another group
C9_Witness ==
  /\ run = "second"
  /\ mpc = "in_call"
  /\ Returned
  /\ group_idx = 1
  /\ out_dir[output_file].writes = 2
  /\ out_dir[output_file].accounts = accounts

\* the template's paragraph text as _detect_tone reads it
TemplateText ==
  Join([i \in 1..Len(template_file.paragraphs) |->
          lower(ParaText(template_file.paragraphs[i]))], " ")

\* C10: the tone is resolved on the unchanged template; "auto" gives urgent if
\* the lowercased paragraph text contains an urgent keyword, else friendly if
\* it contains a friendly keyword, else formal; a value other than formal,
\* urgent, friendly or auto gives formal.
C10_ToneResolution ==
  /\ upc = "tone" => doc = template_file
  /\ upc \in {"replace_paragraphs", "replace_tables", "accounts_table",
              "nodal_paragraphs", "nodal_cells", "save"} => tone_used # ""
  /\ tone_used # "" =>
       LET urgent == \E k \in {"urgent", "immediate", "final notice", "last reminder"} :
                       Contains(k, TemplateText)
           friendly == \E k \in {"kindly", "please", "request", "cooperate"} :
                         Contains(k, TemplateText)
       IN tone_used =
            CASE tone = "auto" /\ urgent -> "urgent"
              [] tone = "auto" /\ ~urgent /\ friendly -> "friendly"
              [] tone = "auto" /\ ~urgent /\ ~friendly -> "formal"
              [] tone \in {"formal", "urgent", "friendly"} -> tone
              [] OTHER -> "formal"

\* "auto" on a template with both kinds of keyword
C10_Witness ==
  /\ tone = "auto"
  /\ tone_used = "urgent"
  /\ Contains("kindly", TemplateText)
  /\ Contains("final notice", TemplateText)

\* the first run of the template, in document order, that passes the test
FirstRunWith(Test(_)) ==
  LET runs == AllRuns(template_file)
  IN IF \E i \in 1..Len(runs) : Test(runs[i])
     THEN CHOOSE i \in 1..Len(runs) : Test(runs[i]) /\ \A j \in 1..(i - 1) : ~Test(runs[j])
     ELSE 0

\* C11: the baseline's font name is the first non-empty font name and its font
\* size the first non-empty font size among all runs of the body paragraphs in
\* document order, each on its own; a value never met is the fallback.
C11_BaselineTakesFirstFont ==
  upc \notin {"call", "returned"} =>
    LET HasName(r) == r.font_name # ""
        HasSize(r) == r.font_sz # 0
        runs == AllRuns(template_file)
        n == FirstRunWith(HasName)
        z == FirstRunWith(HasSize)
    IN /\ tmpl.font_name = IF n = 0 THEN DefaultFontName ELSE runs[n].font_name
       /\ tmpl.font_size = IF z = 0 THEN DefaultFontSize ELSE SizePt(runs[z].font_sz)

\* C12: the table update_word_template regenerates is the table from which
\* _extract_template_baseline took the header baseline at the start of the
\* call: both find none, or both find the same one.
C12_RegeneratedTableIsBaselineTable ==
  upc \in {"nodal_paragraphs", "nodal_cells", "save"} => regen_table = tmpl.header_table

\* the runs of paragraph p are all bold and dark red
AllBoldRed(p) == \A j \in 1..Len(p.runs) : p.runs[j].bold = "True" /\ p.runs[j].color = "990000"

\* C13: under the tone urgent, every body paragraph whose template text
\* contains "notice" or "urgent" has all its runs bold and dark red in the
\* saved document.
C13_UrgentStylingSurvives ==
  (Returned /\ tone_used = "urgent") =>
    \A i \in 1..Len(template_file.paragraphs) :
      (\E k \in {"notice", "urgent"} : Contains(k, lower(ParaText(template_file.paragraphs[i]))))
        => AllBoldRed(Saved.paragraphs[i])

====
